---- MODULE Spec2Model ----
(***************************************************************************)
(* A model of the-pause-dashboard: the graph query layer (db/client.py),   *)
(* the summarization adapter (db/llm.py) and the dashboard request handler *)
(* (main.py).                                                              *)
(*                                                                         *)
(* The graph store is external and read-only: a set of labelled nodes with *)
(* properties and a set of typed, directed relationships.  Every Cypher    *)
(* query of client.py is an operator over that store, evaluated clause by  *)
(* clause (MATCH, OPTIONAL MATCH, WITH + aggregation, ORDER BY, LIMIT).    *)
(***************************************************************************)
EXTENDS Integers, Sequences, FiniteSets, TLC

(***************************************************************************)
(* Bounds of the model.                                                    *)
(***************************************************************************)
MaxDecisions == 2
MaxEvents == 1
MaxOutcomes == 2
MaxPersons == 2
MaxAgents == 1
MaxTasks == 1
\* at most this many relationships in the store (InitSplit: of each part)
MaxRels == 3
\* parallel relationships of one type between the same two nodes
MaxParallel == 2
\* the largest limit / per_type parameter a caller passes
MaxLimit == 2

\* driver objects the process may create (ids 1..MaxDrivers)
MaxDrivers == 3
\* requests in flight at once
MaxRequests == 2
\* invocations of the text-generation service the model follows
MaxCalls == 2
MaxCauses == 2

VARIABLES
    nodes,          \* the store: the nodes that exist, each <<label, i>>
    props,          \* the store: node -> [name, description, type]
    rels,           \* the store: relationships <<type, src, dst, k>>
    op,             \* the library call that returned last ("none" before any)
    arg,            \* its argument (0 when it takes none)
    result,         \* what it returned (NULL when it raised)
    raised,         \* the exception it raised (NULL when it returned)
    db_client,      \* client.py _client: 0 (None) or the Neo4jClient's id
    clients_made,   \* Neo4jClient objects constructed so far
    driver,         \* the Neo4jClient's _driver: 0 (None) or the driver's id
    open_drivers,   \* drivers created and not closed
    drivers_made,   \* drivers created so far
    llm_client,     \* llm.py _client: 0 (None) or 1 (the OpenAI handle)
    llm_calls,      \* chat.completions.create invocations so far
    llm_prompt,     \* the user content the service received in the step taken last
    pc,             \* request -> the line of dashboard() it is at
    ctx,            \* request -> the handler's locals
    error           \* request -> the exception that ended it, or NULL

storeVars == <<nodes, props, rels>>
callVars == <<op, arg, result, raised>>
connVars == <<db_client, clients_made, driver, open_drivers, drivers_made>>
llmVars == <<llm_client, llm_calls>>
reqVars == <<pc, ctx, error>>
vars == <<nodes, props, rels, op, arg, result, raised, db_client, clients_made,
          driver, open_drivers, drivers_made, llm_client, llm_calls, llm_prompt,
          pc, ctx, error>>

(***************************************************************************)
(* The store.                                                              *)
(***************************************************************************)
NULL == "<null>"
NoNode == <<"<null>", 0>>

Label(n) == n[1]

Universe(label, max) == {<<label, i>> : i \in 1..max}

Decisions == Universe("Decision", MaxDecisions)
Events == Universe("Event", MaxEvents)
Outcomes == Universe("Outcome", MaxOutcomes)
Persons == Universe("Person", MaxPersons)
Agents == Universe("Agent", MaxAgents)
Tasks == Universe("Task", MaxTasks)
AllNodes == Decisions \cup Events \cup Outcomes \cup Persons \cup Agents \cup Tasks

\* the names a node may carry, in ascending (ORDER BY) order
NameOrder == <<"alpha", "beta">>
Names == {NameOrder[i] : i \in 1..Len(NameOrder)}
NameRank(s) == CHOOSE i \in 1..Len(NameOrder) : NameOrder[i] = s

NoProps == [name |-> NULL, description |-> NULL, type |-> NULL]

\* (n:Label)
NodesOf(label) == {n \in nodes : Label(n) = label}

\* (a)-[:type]->(b)
Rel(type, a, b) == \E r \in rels : r[1] = type /\ r[2] = a /\ r[3] = b

\* the relationships (a)-[:type]->(b), one MATCH row each
RelsBetween(type, a, b) == {r \in rels : r[1] = type /\ r[2] = a /\ r[3] = b}

\* the nodes one hop from the nodes of S: (s)-[:type]->(n)
Step(type, S) == {n \in nodes : \E s \in S : Rel(type, s, n)}

\* the nodes one hop back from the nodes of S: (n)-[:type]->(s)
StepBack(type, S) == {n \in nodes : \E s \in S : Rel(type, n, s)}

\* (a)-[:type*lo..hi]->(n), hi <= 3.  A variable-length pattern never uses
\* a relationship twice, which leaves the set of end nodes unchanged: a walk
\* that repeats a relationship contains a shorter walk between the same
\* ends that still uses that relationship.
Hops(type, a, lo, hi) ==
    LET h0 == {a}
        h1 == Step(type, h0)
        h2 == Step(type, h1)
        h3 == Step(type, h2)
        at == <<h1, h2, h3>>
    IN  (IF lo = 0 THEN h0 ELSE {})
            \cup UNION {at[k] : k \in {j \in 1..3 : lo <= j /\ j <= hi}}

\* (n)-[:type*lo..hi]->(a)
HopsBack(type, a, lo, hi) ==
    LET h0 == {a}
        h1 == StepBack(type, h0)
        h2 == StepBack(type, h1)
        h3 == StepBack(type, h2)
        at == <<h1, h2, h3>>
    IN  (IF lo = 0 THEN h0 ELSE {})
            \cup UNION {at[k] : k \in {j \in 1..3 : lo <= j /\ j <= hi}}

(***************************************************************************)
(* Families of stores the specifications start from.                       *)
(***************************************************************************)
\* candidate relationships of one type from the nodes of A to the nodes of B
Cands(type, A, B) == {<<type, a, b>> : a \in A, b \in B}

\* the relationships of T that are copies of candidate c
Copies(T, c) == {r \in T : r[1] = c[1] /\ r[2] = c[2] /\ r[3] = c[3]}

\* every set of at most k relationships drawn from the candidates C, with at
\* most par parallel copies of each
RECURSIVE RelSets(_, _, _)
RelSets(C, k, par) ==
    IF k = 0 THEN {{}}
    ELSE LET prev == RelSets(C, k - 1, par)
             room == {tc \in prev \X C : Cardinality(Copies(tc[1], tc[2])) < par}
         IN  prev \cup
             {tc[1] \cup {<<tc[2][1], tc[2][2], tc[2][3],
                            Cardinality(Copies(tc[1], tc[2])) + 1>>} : tc \in room}

\* the first n nodes of a label
First(label, n) == {<<label, i>> : i \in 1..n}

(***************************************************************************)
(* The process before any call: no client, no driver, no handle, every     *)
(* request slot idle.                                                      *)
(***************************************************************************)
Requests == 1..MaxRequests

NoLocals ==
    [summary |-> NULL, split |-> NULL, decisions |-> NULL, people |-> NULL,
     agents |-> NULL, outcomes |-> NULL, outcome_summary |-> NULL]

ProcessStart ==
    /\ op = "none"
    /\ arg = 0
    /\ result = NULL
    /\ raised = NULL
    /\ db_client = 0
    /\ clients_made = 0
    /\ driver = 0
    /\ open_drivers = {}
    /\ drivers_made = 0
    /\ llm_client = 0
    /\ llm_calls = 0
    /\ llm_prompt = NULL
    /\ pc = [r \in Requests |-> "idle"]
    /\ ctx = [r \in Requests |-> NoLocals]
    /\ error = [r \in Requests |-> NULL]

(***************************************************************************)
(* get_client, Neo4jClient.__init__, Neo4jClient.driver, close, query      *)
(***************************************************************************)
\* a get_client() that constructs a client on every call
get_client_always_new == clients_made + 1

\* get_client(): the module's _client once the call has returned
get_client == IF db_client = 0 THEN clients_made + 1 ELSE db_client

\* what get_client() does to the process: a client it constructs starts
\* with _driver None (__init__), and no driver is created
GetClientEffect ==
    /\ get_client <= MaxRequests + 1
    /\ db_client' = get_client
    /\ clients_made' = IF get_client = db_client THEN clients_made
                       ELSE clients_made + 1
    /\ driver' = IF get_client = db_client THEN driver ELSE 0
    /\ UNCHANGED <<open_drivers, drivers_made>>

\* a driver property that connects on every access
driver_property_uncached == drivers_made + 1

\* Neo4jClient.driver: the _driver the property returns, created when None
driver_property == IF driver = 0 THEN drivers_made + 1 ELSE driver

\* Neo4jClient.query reaches the store through self.driver
CanUseDriver == db_client # 0 /\ driver_property <= MaxDrivers

UseDriver ==
    /\ driver' = driver_property
    /\ drivers_made' = IF driver_property = driver THEN drivers_made
                       ELSE drivers_made + 1
    /\ open_drivers' = open_drivers \cup {driver_property}
    /\ UNCHANGED <<db_client, clients_made>>

\* a step that does not invoke the text-generation service
NoInvocation == llm_prompt' = NULL

\* the call name(a) ends: it returns value, or raises exc
Returns(name, a, value, exc) ==
    /\ op' = name
    /\ arg' = a
    /\ result' = value
    /\ raised' = exc

\* a library call that runs one or more queries and returns value
Call(name, a, value) ==
    /\ CanUseDriver
    /\ UseDriver
    /\ Returns(name, a, value, NULL)
    /\ UNCHANGED <<storeVars, llmVars, reqVars>>
    /\ NoInvocation

\* a caller obtains the shared client
GetClient ==
    /\ GetClientEffect
    /\ Returns("get_client", 0, get_client, NULL)
    /\ UNCHANGED <<storeVars, llmVars, reqVars>>
    /\ NoInvocation

\* Neo4jClient.close(): closes the driver, if any, and forgets it
Close ==
    /\ db_client # 0
    /\ open_drivers' = IF driver # 0 THEN open_drivers \ {driver} ELSE open_drivers
    /\ driver' = 0
    /\ Returns("close", 0, NULL, NULL)
    /\ UNCHANGED <<db_client, clients_made, drivers_made>>
    /\ UNCHANGED <<storeVars, llmVars, reqVars>>
    /\ NoInvocation

(***************************************************************************)
(* Neo4jClient.get_topology_stats, Neo4jClient.get_dashboard_summary       *)
(***************************************************************************)
ZeroTopology ==
    [decisions |-> 0, events |-> 0, outcomes |-> 0,
     people |-> 0, agents |-> 0, tasks |-> 0]

\* MATCH (n:label) WITH <the earlier columns>, count(n) AS column.
\* With grouping keys (first = FALSE) an empty MATCH leaves no row at all;
\* without any, count() over no rows is one row holding 0.
MatchCount(rows, label, column, first) ==
    LET matched == {r \in rows : first \/ NodesOf(label) # {}}
    IN  {[r EXCEPT ![column] = Cardinality(NodesOf(label))] : r \in matched}

TopologyRows ==
    LET r1 == MatchCount({ZeroTopology}, "Decision", "decisions", TRUE)
        r2 == MatchCount(r1, "Event", "events", FALSE)
        r3 == MatchCount(r2, "Outcome", "outcomes", FALSE)
        r4 == MatchCount(r3, "Person", "people", FALSE)
        r5 == MatchCount(r4, "Agent", "agents", FALSE)
    IN  MatchCount(r5, "Task", "tasks", FALSE)

get_topology_stats ==
    IF TopologyRows # {} THEN CHOOSE r \in TopologyRows : TRUE ELSE ZeroTopology

ZeroSummary ==
    [total_decisions |-> 0, total_outcomes |-> 0,
     total_people |-> 0, total_agents |-> 0]

SummaryRows ==
    LET r1 == MatchCount({ZeroSummary}, "Decision", "total_decisions", TRUE)
        r2 == MatchCount(r1, "Outcome", "total_outcomes", FALSE)
        r3 == MatchCount(r2, "Person", "total_people", FALSE)
    IN  MatchCount(r3, "Agent", "total_agents", FALSE)

\* t = result[0] if result else {}; every field is t.get(field, 0)
get_dashboard_summary ==
    IF SummaryRows # {} THEN CHOOSE r \in SummaryRows : TRUE ELSE ZeroSummary

GetTopologyStats == Call("get_topology_stats", 0, get_topology_stats)

\* a store of nodes only: any subset of the universe, no relationships
InitTopology ==
    /\ nodes \in SUBSET AllNodes
    /\ props = [n \in nodes |-> NoProps]
    /\ rels = {}
    /\ ProcessStart

NextTopology == GetClient \/ GetTopologyStats

SpecTopology == InitTopology /\ [][NextTopology]_vars

\* C2: get_topology_stats returns one record whose six fields each equal the
\* number of nodes of that kind in the store; a kind without nodes counts 0
\* and leaves the other kinds' counts at their true totals.
C2_TopologyCountsAreTrue ==
    op = "get_topology_stats" =>
        /\ raised = NULL
        /\ result.decisions = Cardinality(NodesOf("Decision"))
        /\ result.events = Cardinality(NodesOf("Event"))
        /\ result.outcomes = Cardinality(NodesOf("Outcome"))
        /\ result.people = Cardinality(NodesOf("Person"))
        /\ result.agents = Cardinality(NodesOf("Agent"))
        /\ result.tasks = Cardinality(NodesOf("Task"))

(***************************************************************************)
(* Neo4jClient.get_contribution_split                                      *)
(***************************************************************************)
\* OPTIONAL MATCH: the matches, or one row binding null when there are none
Optional(S) == IF S = {} THEN {NoNode} ELSE S

\* (p:label)-[:PARTICIPATED_IN]->(d)
Participants(label, d) ==
    {p \in NodesOf(label) : Rel("PARTICIPATED_IN", p, d)}

\* CASE WHEN a IS NOT NULL AND p IS NOT NULL THEN 'both' ... ELSE 'none' END
contributor_type(p, a) ==
    CASE a # NoNode /\ p # NoNode -> "both"
      [] a # NoNode /\ p = NoNode -> "ai"
      [] a = NoNode /\ p # NoNode -> "human"
      [] OTHER -> "none"

\* the rows <<n, contributor_type>> that node n gives for Decision d
TypedRows(n, d) ==
    {<<n, contributor_type(p, a)>> :
        p \in Optional(Participants("Person", d)),
        a \in Optional(Participants("Agent", d))}

\* MATCH (d:Decision) OPTIONAL MATCH (p:Person).. OPTIONAL MATCH (a:Agent)..
\* WITH d, CASE .. END AS contributor_type
DecisionSplitRows == UNION {TypedRows(d, d) : d \in NodesOf("Decision")}

\* (o:Outcome)<-[:CAUSED_BY]-(x)<-[:CONTRIBUTED_TO*1..2]-(d:Decision)
\* WHERE x:Task OR x:Event: the Decisions d matched for Outcome o
ContributingDecisions(o) ==
    {d \in NodesOf("Decision") :
        \E x \in Hops("CONTRIBUTED_TO", d, 1, 2) :
            /\ Label(x) \in {"Task", "Event"}
            /\ Rel("CAUSED_BY", x, o)}

OutcomeSplitRows ==
    UNION {UNION {TypedRows(o, d) : d \in ContributingDecisions(o)} :
              o \in NodesOf("Outcome")}

\* RETURN contributor_type, count(DISTINCT n) AS count
CountByType(rows) ==
    {[contributor_type |-> t,
      count |-> Cardinality({r[1] : r \in {q \in rows : q[2] = t}})] :
        t \in {r[2] : r \in rows}}

ZeroSplit == [human |-> 0, ai |-> 0, both |-> 0, none |-> 0, total |-> 0]

\* for row in result: split[row.contributor_type] = row.count
\*                     split["total"] += row.count
RECURSIVE Tally(_, _)
Tally(split, result_rows) ==
    IF result_rows = {} THEN split
    ELSE LET row == CHOOSE r \in result_rows : TRUE
             next == [split EXCEPT ![row.contributor_type] = row.count,
                                   !.total = @ + row.count]
         IN  Tally(next, result_rows \ {row})

\* the local `decisions` of get_contribution_split
split_decisions == Tally(ZeroSplit, CountByType(DecisionSplitRows))

\* the local `outcomes` of get_contribution_split (computed, not returned)
split_outcomes == Tally(ZeroSplit, CountByType(OutcomeSplitRows))

\* n / total * 100, its whole part (Python keeps the fraction)
Rate(n, total) == (n * 100) \div total

get_contribution_split ==
    LET decisions == split_decisions
        total == IF decisions.total # 0 THEN decisions.total ELSE 1
    IN  [human_only |-> decisions.human,
         ai_only |-> decisions.ai,
         both |-> decisions.both,
         none |-> decisions.none,
         total |-> decisions.total,
         human_only_rate |-> Rate(decisions.human, total),
         ai_only_rate |-> Rate(decisions.ai, total),
         both_rate |-> Rate(decisions.both, total),
         none_rate |-> Rate(decisions.none, total)]

GetContributionSplit == Call("get_contribution_split", 0, get_contribution_split)

\* stores of Decisions with participants that contribute to Tasks, Events or
\* other Decisions, which cause Outcomes; the empty store is one of them
SplitUniverse == Decisions \cup Persons \cup Agents \cup Tasks \cup Events \cup Outcomes

ParticipationCands(N) ==
    Cands("PARTICIPATED_IN", N \cap (Persons \cup Agents), N \cap Decisions)

ChainCands(N) ==
    Cands("CONTRIBUTED_TO", N \cap Decisions, N \cap (Tasks \cup Events))
        \cup Cands("CAUSED_BY", N \cap (Tasks \cup Events), N \cap Outcomes)

InitSplit ==
    /\ nodes \in SUBSET SplitUniverse
    /\ props = [n \in nodes |-> NoProps]
    /\ \E P \in RelSets(ParticipationCands(nodes), MaxRels, 1),
          C \in RelSets(ChainCands(nodes), MaxRels, 1) : rels = P \cup C
    /\ ProcessStart

NextSplit == GetClient \/ GetContributionSplit

SpecSplit == InitSplit /\ [][NextSplit]_vars

\* the Outcomes that have contributing Decisions
OutcomesWithContributors == {o \in NodesOf("Outcome") : ContributingDecisions(o) # {}}

\* C1: for any store, the empty one included, the four classes of the Decision
\* split add up to its total and every Decision is counted in exactly one of
\* them; the same holds of the Outcome split and the Outcomes that have
\* contributing Decisions; on an empty store every count and rate is 0.
C1_SplitCountsEachOnce ==
    op = "get_contribution_split" =>
        /\ raised = NULL
        /\ result.human_only + result.ai_only + result.both + result.none
              = result.total
        /\ result.total = Cardinality(NodesOf("Decision"))
        /\ split_outcomes.human + split_outcomes.ai + split_outcomes.both
              + split_outcomes.none = split_outcomes.total
        /\ split_outcomes.total = Cardinality(OutcomesWithContributors)
        /\ nodes = {} =>
              /\ result.total = 0
              /\ result.human_only_rate = 0 /\ result.ai_only_rate = 0
              /\ result.both_rate = 0 /\ result.none_rate = 0
              /\ split_outcomes.total = 0

(***************************************************************************)
(* Neo4jClient.get_dashboard_stats                                         *)
(***************************************************************************)
\* OPTIONAL MATCH (d:Decision)-[:LED_TO]->(o:Outcome) WHERE o.type = type
\* .. count(DISTINCT d)
LedToType(type) ==
    Cardinality({d \in NodesOf("Decision") :
        \E o \in NodesOf("Outcome") :
            Rel("LED_TO", d, o) /\ props[o].type = type})

\* OPTIONAL MATCH (d:Decision)<-[:CONTRIBUTED_TO]-(p:label) .. count(DISTINCT d)
ContributedBy(label) ==
    Cardinality({d \in NodesOf("Decision") :
        \E p \in NodesOf(label) : Rel("CONTRIBUTED_TO", p, d)})

\* The query's first WITH aggregates without grouping keys and every later
\* clause is an OPTIONAL MATCH, so it always returns exactly one row and the
\* all-zero fallback below `if result:` is never taken.
get_dashboard_stats ==
    LET total == Cardinality(NodesOf("Decision"))
        good == LedToType("good")
        bad == LedToType("bad")
    IN  [total_decisions |-> total,
         good_outcomes |-> good,
         bad_outcomes |-> bad,
         good_rate |-> IF good + bad > 0 THEN Rate(good, good + bad) ELSE 0,
         bad_rate |-> IF good + bad > 0 THEN Rate(bad, good + bad) ELSE 0,
         human_decisions |-> ContributedBy("Person"),
         ai_decisions |-> ContributedBy("Agent")]

GetDashboardStats == Call("get_dashboard_stats", 0, get_dashboard_stats)

OutcomeTypes == {"good", "bad", NULL}

StatsCands(N) ==
    Cands("PARTICIPATED_IN", N \cap (Persons \cup Agents), N \cap Decisions)
        \cup Cands("CONTRIBUTED_TO", N \cap (Persons \cup Agents), N \cap Decisions)
        \cup Cands("LED_TO", N \cap Decisions, N \cap Outcomes)

\* stores of Decisions that led to typed Outcomes, with Persons and Agents
\* attached to them by either relationship type
InitStats ==
    /\ \E D \in SUBSET Decisions, O \in SUBSET Outcomes :
          nodes = D \cup O \cup Persons \cup Agents
    /\ \E t \in [nodes \cap Outcomes -> OutcomeTypes] :
          props = [n \in nodes |->
                     IF n \in Outcomes THEN [NoProps EXCEPT !.type = t[n]]
                     ELSE NoProps]
    /\ rels \in RelSets(StatsCands(nodes), MaxRels, 1)
    /\ ProcessStart

NextStats == GetClient \/ GetDashboardStats

SpecStats == InitStats /\ [][NextStats]_vars

\* the Decisions with at least one participant of the label
DecisionsWith(label) ==
    {d \in NodesOf("Decision") : Participants(label, d) # {}}

\* 2 Decisions, one with only a Person participant, one with only an Agent
\* participant, and 1 'good' Outcome the human-only Decision led to
ScenarioStore ==
    /\ Cardinality(NodesOf("Decision")) = 2
    /\ Cardinality(NodesOf("Outcome")) = 1
    /\ \E dh, da \in NodesOf("Decision"), o \in NodesOf("Outcome"),
          p \in NodesOf("Person"), a \in NodesOf("Agent") :
          /\ dh # da
          /\ props[o].type = "good"
          /\ rels = {<<"PARTICIPATED_IN", p, dh, 1>>,
                     <<"PARTICIPATED_IN", a, da, 1>>,
                     <<"LED_TO", dh, o, 1>>}

\* C3: get_dashboard_stats reports the number of Decisions, of Decisions that
\* led to a 'good' / 'bad' Outcome and of Decisions with at least one Person /
\* Agent participant; on the two-Decision scenario it reports 2, 1, 0, a
\* good_rate of 100 and one human and one ai Decision.
C3_DashboardStatsCountParticipants ==
    op = "get_dashboard_stats" =>
        /\ raised = NULL
        /\ result.total_decisions = Cardinality(NodesOf("Decision"))
        /\ result.good_outcomes = LedToType("good")
        /\ result.bad_outcomes = LedToType("bad")
        /\ result.human_decisions = Cardinality(DecisionsWith("Person"))
        /\ result.ai_decisions = Cardinality(DecisionsWith("Agent"))
        /\ ScenarioStore =>
              /\ result.total_decisions = 2
              /\ result.good_outcomes = 1
              /\ result.bad_outcomes = 0
              /\ result.good_rate = 100
              /\ result.human_decisions = 1
              /\ result.ai_decisions = 1

(***************************************************************************)
(* Neo4jClient.get_people_with_stats, Neo4jClient.get_agents_with_stats    *)
(***************************************************************************)
Min(a, b) == IF a <= b THEN a ELSE b

\* every order of the elements of S
Perms(S) ==
    {f \in [1..Cardinality(S) -> S] :
        \A i, j \in 1..Cardinality(S) : i # j => f[i] # f[j]}

\* LIMIT n
Limit(s, n) == SubSeq(s, 1, Min(n, Len(s)))

\* OPTIONAL MATCH (e)-[:PARTICIPATED_IN]->(d:Decision) WITH e, count(d):
\* one row per relationship, and count(d) counts the rows that bind d
decision_count(e) ==
    Cardinality({r \in rels : /\ r[1] = "PARTICIPATED_IN"
                              /\ r[2] = e
                              /\ r[3] \in NodesOf("Decision")})

\* a MATCH in place of the OPTIONAL MATCH: entities without Decisions drop out
RankedEntities_inner_join(label) == {e \in NodesOf(label) : decision_count(e) > 0}

\* MATCH (e:label) OPTIONAL MATCH ..: every entity of the label keeps a row
RankedEntities(label) == NodesOf(label)

\* RETURN e.name AS name, e.role / e.description, decision_count.  `node` is
\* the grouping key e of the WITH, kept to tell rows of equal names apart.
StatsRow(e) ==
    [node |-> e, name |-> props[e].name, detail |-> props[e].description,
     decision_count |-> decision_count(e)]

\* ORDER BY decision_count DESC: any order with non-increasing counts (the
\* order among equal counts is the store's choice)
OrderedByCountDesc(S) ==
    {s \in Perms(S) :
        \A i \in 1..(Len(s) - 1) : s[i].decision_count >= s[i + 1].decision_count}

\* the results the query may return for a label and a limit
with_stats(label, limit) ==
    {Limit(s, limit) : s \in OrderedByCountDesc({StatsRow(e) : e \in RankedEntities(label)})}

GetPeopleWithStats ==
    \E limit \in 0..MaxLimit :
        \E rows \in with_stats("Person", limit) :
            Call("get_people_with_stats", limit, rows)

GetAgentsWithStats ==
    \E limit \in 0..MaxLimit :
        \E rows \in with_stats("Agent", limit) :
            Call("get_agents_with_stats", limit, rows)

\* stores of Persons and Agents that participated in Decisions, some of them
\* linked to the same Decision more than once
InitRanked ==
    /\ \E np \in 0..MaxPersons, na \in 0..MaxAgents, nd \in 0..MaxDecisions :
          nodes = First("Person", np) \cup First("Agent", na) \cup First("Decision", nd)
    /\ props = [n \in nodes |-> NoProps]
    /\ rels \in RelSets(Cands("PARTICIPATED_IN",
                              nodes \cap (Persons \cup Agents), nodes \cap Decisions),
                        MaxRels, MaxParallel)
    /\ ProcessStart

NextRanked == GetClient \/ GetPeopleWithStats \/ GetAgentsWithStats

SpecRanked == InitRanked /\ [][NextRanked]_vars

RankedOp == op \in {"get_people_with_stats", "get_agents_with_stats"}
RankedLabel == IF op = "get_people_with_stats" THEN "Person" ELSE "Agent"

\* the Decisions entity e is linked to by PARTICIPATED_IN
DecisionsOf(e) == {d \in NodesOf("Decision") : Rel("PARTICIPATED_IN", e, d)}

SortedByCountDesc(rows) ==
    \A i \in 1..(Len(rows) - 1) : rows[i].decision_count >= rows[i + 1].decision_count

\* C5 as stated: the rows are sorted by decision_count descending,
\* decision_count is the number of Decisions the entity is linked to, and
\* every entity of the label has a row, one with 0 when it has no Decisions.
C5_RankedStatsAsStated ==
    RankedOp =>
        /\ SortedByCountDesc(result)
        /\ \A i \in 1..Len(result) :
              result[i].decision_count = Cardinality(DecisionsOf(result[i].node))
        /\ \A e \in NodesOf(RankedLabel) :
              \E i \in 1..Len(result) : result[i].node = e

\* C5, amended: the rows are sorted by decision_count descending; there are
\* min(limit, number of entities) rows, each of another entity, so every
\* entity has a row when the limit admits them all; decision_count is the
\* number of PARTICIPATED_IN relationships from the entity to Decisions,
\* which is 0 for an entity without Decisions and the number of its
\* Decisions when none is linked twice; a dropped entity never has more
\* Decisions' relationships than a kept one.
C5_RankedStats ==
    RankedOp =>
        /\ raised = NULL
        /\ SortedByCountDesc(result)
        /\ Len(result) = Min(arg, Cardinality(NodesOf(RankedLabel)))
        /\ \A i, j \in 1..Len(result) : i # j => result[i].node # result[j].node
        /\ \A i \in 1..Len(result) :
              /\ result[i].node \in NodesOf(RankedLabel)
              /\ result[i].decision_count
                    = Cardinality({r \in rels : /\ r[1] = "PARTICIPATED_IN"
                                                /\ r[2] = result[i].node
                                                /\ Label(r[3]) = "Decision"})
              /\ DecisionsOf(result[i].node) = {} => result[i].decision_count = 0
              /\ (\A r \in rels : r[4] = 1) =>
                    result[i].decision_count = Cardinality(DecisionsOf(result[i].node))
              /\ \A e \in NodesOf(RankedLabel) :
                    (\A j \in 1..Len(result) : result[j].node # e) =>
                        decision_count(e) <= result[i].decision_count

\* an entity without Decisions is listed, with 0, below one that has some
C5_ZeroEntityListed ==
    /\ RankedOp
    /\ Len(result) >= 2
    /\ result[1].decision_count > 0
    /\ result[Len(result)].decision_count = 0

(***************************************************************************)
(* Neo4jClient.get_decisions_by_type                                       *)
(***************************************************************************)
\* collect(DISTINCT n.name): the non-null names of the nodes of S
NamesOf(S) == {props[n].name : n \in S} \ {NULL}

\* the traversal as section 4.1 of the specification words it: 0 to 2 hops
\* to a Task, Event or Decision
LinkedVia_zero_hops(d) ==
    {x \in Hops("CONTRIBUTED_TO", d, 0, 2) : Label(x) \in {"Task", "Event", "Decision"}}

\* (d)-[:CONTRIBUTED_TO*1..2]->(x) WHERE x IS NULL OR x:Task OR x:Event
LinkedVia(d) ==
    {x \in Hops("CONTRIBUTED_TO", d, 1, 2) : Label(x) \in {"Task", "Event"}}

\* .. (x)<-[:CAUSED_BY]-(o:Outcome): the Outcomes o matched for Decision d
LinkedOutcomes(d) ==
    {o \in NodesOf("Outcome") : \E x \in LinkedVia(d) : Rel("CAUSED_BY", o, x)}

\* collect(DISTINCT o.name)[0]: the first of the collected names, whichever
\* the store collected first, or null when the list is empty
OutcomeChoices(d) ==
    IF NamesOf(LinkedOutcomes(d)) = {} THEN {NULL} ELSE NamesOf(LinkedOutcomes(d))

\* a CASE that tests for an Agent before it tests for both
influence_type_ai_first(d) ==
    CASE Participants("Agent", d) # {} -> "ai"
      [] Participants("Person", d) # {} -> "human"
      [] OTHER -> "unknown"

\* CASE WHEN size(collect(DISTINCT a)) > 0 AND size(collect(DISTINCT p)) > 0
\*      THEN 'both' WHEN size(..a..) > 0 THEN 'ai' WHEN size(..p..) > 0
\*      THEN 'human' ELSE 'unknown' END
influence_type(d) ==
    CASE Cardinality(Participants("Agent", d)) > 0
            /\ Cardinality(Participants("Person", d)) > 0 -> "both"
      [] Cardinality(Participants("Agent", d)) > 0 -> "ai"
      [] Cardinality(Participants("Person", d)) > 0 -> "human"
      [] OTHER -> "unknown"

\* one row per Decision (WITH d, ..).  `node` is that grouping key d, kept
\* to tell rows of equal names apart; people and agents are lists whose
\* order is the store's, held here as sets.
ByTypeRow(d, outcome) ==
    [node |-> d,
     decision |-> props[d].name,
     description |-> props[d].description,
     outcome |-> outcome,
     people |-> NamesOf(Participants("Person", d)),
     agents |-> NamesOf(Participants("Agent", d)),
     influence_type |-> influence_type(d)]

\* MATCH (d:Decision) WHERE d.name IS NOT NULL
NamedDecisions == {d \in NodesOf("Decision") : props[d].name # NULL}

\* the row sets the query may build, one for each way the store may pick
\* the outcome of every Decision
ByTypeRowSets ==
    LET picks == {f \in [NamedDecisions -> Names \cup {NULL}] :
                      \A d \in NamedDecisions : f[d] \in OutcomeChoices(d)}
    IN  {{ByTypeRow(d, f[d]) : d \in NamedDecisions} : f \in picks}

\* ORDER BY CASE influence_type .. END, decision, then
\* WITH influence_type, collect({..})[0..$per_type]: the rows of one type in
\* ascending name order (equal names in the store's order), cut to per_type
GroupSlices(rows, type, per_type) ==
    LET group == {r \in rows : r.influence_type = type}
    IN  {Limit(s, per_type) :
            s \in {q \in Perms(group) :
                     \A i \in 1..(Len(q) - 1) :
                         NameRank(q[i].decision) <= NameRank(q[i + 1].decision)}}

\* UNWIND decisions AS d RETURN ..: the groups in the order of the ORDER BY
by_type_results(rows, per_type) ==
    {b \o h \o a \o u :
        b \in GroupSlices(rows, "both", per_type),
        h \in GroupSlices(rows, "human", per_type),
        a \in GroupSlices(rows, "ai", per_type),
        u \in GroupSlices(rows, "unknown", per_type)}

GetDecisionsByType ==
    \E per_type \in 0..MaxLimit :
        \E rows \in ByTypeRowSets :
            \E res \in by_type_results(rows, per_type) :
                Call("get_decisions_by_type", per_type, res)

\* the name of the i-th node of a label, where the store gives it one
IndexName(n) == IF n[2] <= Len(NameOrder) THEN NameOrder[n[2]] ELSE NULL

\* stores of Decisions, named or not, with Person and Agent participants
InitByType ==
    /\ \E nd \in 0..MaxDecisions :
          nodes = First("Decision", nd) \cup Persons \cup Agents
    /\ \E nm \in [nodes \cap Decisions -> Names \cup {NULL}] :
          props = [n \in nodes |->
                     IF n \in Decisions THEN [NoProps EXCEPT !.name = nm[n]]
                     ELSE [NoProps EXCEPT !.name = IndexName(n)]]
    /\ rels \in RelSets(Cands("PARTICIPATED_IN", Persons \cup Agents,
                              nodes \cap Decisions), MaxRels, 1)
    /\ ProcessStart

NextByType == GetClient \/ GetDecisionsByType

SpecByType == InitByType /\ [][NextByType]_vars

\* the rows of the result that Decision d gave
RowsOf(d) == {i \in 1..Len(result) : result[i].node = d}

InfluenceTypes == {"both", "human", "ai", "unknown"}

\* the group a Decision belongs to, from its participants
GroupOf(d) ==
    IF DecisionsWith("Person") \cap {d} # {}
    THEN (IF d \in DecisionsWith("Agent") THEN "both" ELSE "human")
    ELSE (IF d \in DecisionsWith("Agent") THEN "ai" ELSE "unknown")

\* C4 as stated: every Decision of the store has exactly one row, with one
\* influence_type of the four, and a Decision with a Person and an Agent
\* participant is 'both'.
C4_EveryDecisionInOneGroup ==
    op = "get_decisions_by_type" =>
        /\ \A d \in NodesOf("Decision") :
              /\ Cardinality(RowsOf(d)) = 1
              /\ \A i \in RowsOf(d) :
                    /\ result[i].influence_type \in InfluenceTypes
                    /\ (d \in DecisionsWith("Person") /\ d \in DecisionsWith("Agent"))
                          => result[i].influence_type = "both"

\* C4, amended: every row is the row of a Decision with a non-null name and
\* carries the one group of {both, human, ai, unknown} its participants put
\* it in ('both' when it has a Person and an Agent participant); no Decision
\* has two rows; a Decision without a name has none; each group holds
\* min(per_type, size of the group) rows, so every named Decision has its
\* row when its group has at most per_type members, and the rows a group
\* loses are those of its last names.
C4_DecisionsInOneGroupUpToCap ==
    op = "get_decisions_by_type" =>
        /\ raised = NULL
        /\ \A i \in 1..Len(result) :
              /\ result[i].node \in NamedDecisions
              /\ result[i].influence_type = GroupOf(result[i].node)
        /\ \A d \in NodesOf("Decision") : Cardinality(RowsOf(d)) <= 1
        /\ \A g \in InfluenceTypes :
              LET members == {d \in NamedDecisions : GroupOf(d) = g}
                  kept == {d \in members : RowsOf(d) # {}}
              IN  /\ Cardinality(kept) = Min(arg, Cardinality(members))
                  /\ \A d \in kept, e \in members \ kept :
                        NameRank(props[d].name) <= NameRank(props[e].name)

\* a Decision with both kinds of participant is listed as 'both' while
\* another Decision of the store has no row
C4_BothListedAndOneCut ==
    /\ op = "get_decisions_by_type"
    /\ \E i \in 1..Len(result) :
          /\ result[i].influence_type = "both"
          /\ Participants("Person", result[i].node) # {}
          /\ Participants("Agent", result[i].node) # {}
    /\ \E d \in NodesOf("Decision") : RowsOf(d) = {}

\* stores of two named Decisions, a Task and an Event, where each may
\* contribute to another and two Outcomes, named or not, are caused by them
LinkNodes == First("Decision", 2) \cup First("Task", 1) \cup First("Event", 1)

LinkOutcomes == First("Outcome", 2)

LinkCands ==
    {c \in Cands("CONTRIBUTED_TO", LinkNodes \cap Decisions, LinkNodes)
              \cup Cands("CONTRIBUTED_TO", LinkNodes \ Decisions, LinkNodes \ Decisions) :
        c[2] # c[3]}
        \cup Cands("CAUSED_BY", LinkOutcomes, LinkNodes)

InitOutcomeLink ==
    /\ nodes = LinkNodes \cup LinkOutcomes
    /\ \E nm \in [LinkOutcomes -> BOOLEAN] :
          props = [n \in nodes |->
                     IF n \in LinkOutcomes /\ ~nm[n] THEN NoProps
                     ELSE [NoProps EXCEPT !.name = IndexName(n)]]
    /\ rels \in RelSets(LinkCands, MaxRels, 1)
    /\ ProcessStart

SpecOutcomeLink == InitOutcomeLink /\ [][NextByType]_vars

\* x is 1 or 2 CONTRIBUTED_TO hops from d
OneOrTwoHops(d, x) ==
    \/ Rel("CONTRIBUTED_TO", d, x)
    \/ \E m \in nodes : Rel("CONTRIBUTED_TO", d, m) /\ Rel("CONTRIBUTED_TO", m, x)

\* C9 as stated: a row's outcome is non-null exactly when some Outcome has a
\* CAUSED_BY edge to a Task, Event or Decision 0 to 2 CONTRIBUTED_TO hops
\* from the row's Decision, and is then the name of such an Outcome.
C9_OutcomeWithinZeroToTwoHops ==
    op = "get_decisions_by_type" =>
        \A i \in 1..Len(result) :
            LET d == result[i].node
                linked == {o \in NodesOf("Outcome") :
                             \E x \in nodes :
                                /\ Label(x) \in {"Task", "Event", "Decision"}
                                /\ x = d \/ OneOrTwoHops(d, x)
                                /\ Rel("CAUSED_BY", o, x)}
            IN  /\ result[i].outcome # NULL <=> linked # {}
                /\ result[i].outcome # NULL =>
                      \E o \in linked : props[o].name = result[i].outcome

\* C9, amended: a row's outcome is non-null exactly when some Outcome with a
\* non-null name has a CAUSED_BY edge to a Task or Event 1 or 2
\* CONTRIBUTED_TO hops from the row's Decision, and is then the name of such
\* an Outcome.
C9_OutcomeWithinOneToTwoHops ==
    op = "get_decisions_by_type" =>
        \A i \in 1..Len(result) :
            LET d == result[i].node
                linked == {o \in NodesOf("Outcome") :
                             /\ props[o].name # NULL
                             /\ \E x \in nodes :
                                   /\ Label(x) \in {"Task", "Event"}
                                   /\ OneOrTwoHops(d, x)
                                   /\ Rel("CAUSED_BY", o, x)}
            IN  /\ result[i].outcome # NULL <=> linked # {}
                /\ result[i].outcome # NULL =>
                      \E o \in linked : props[o].name = result[i].outcome

\* a Decision's row names an Outcome that is two hops away and no nearer
C9_OutcomeTwoHopsAway ==
    /\ op = "get_decisions_by_type"
    /\ \E i \in 1..Len(result) :
          /\ result[i].outcome # NULL
          /\ \A o \in NodesOf("Outcome"), x \in nodes :
                Rel("CAUSED_BY", o, x) => ~Rel("CONTRIBUTED_TO", result[i].node, x)

(***************************************************************************)
(* Neo4jClient.get_outcomes_for_summary                                    *)
(***************************************************************************)
\* OPTIONAL MATCH (o)<-[:CAUSED_BY*1..3]-(x) WHERE x:Task OR x:Event OR x:Decision
CausesOf(o) ==
    {x \in HopsBack("CAUSED_BY", o, 1, 3) : Label(x) \in {"Task", "Event", "Decision"}}

\* OPTIONAL MATCH (d:Decision)-[:CONTRIBUTED_TO*0..2]->(x)
DecisionsBehind(o) ==
    {d \in NodesOf("Decision") :
        \E x \in CausesOf(o) : x \in Hops("CONTRIBUTED_TO", d, 0, 2)}

\* the rows Outcome o may give: collect(DISTINCT d.name) in any order;
\* people and agents, also lists in the store's order, are held as sets
SummaryRowsOf(o) ==
    {[outcome |-> props[o].name,
      description |-> props[o].description,
      decisions |-> ds,
      people |-> NamesOf(UNION {Participants("Person", d) : d \in DecisionsBehind(o)}),
      agents |-> NamesOf(UNION {Participants("Agent", d) : d \in DecisionsBehind(o)})] :
        ds \in Perms(NamesOf(DecisionsBehind(o)))}

\* the results that list the Outcomes of s in that order
RECURSIVE RowsInOrder(_, _)
RowsInOrder(s, rowsOf) ==
    IF Len(s) = 0 THEN {<<>>}
    ELSE {<<r>> \o t : r \in rowsOf[Head(s)], t \in RowsInOrder(Tail(s), rowsOf)}

\* one row per Outcome, LIMIT $limit without ORDER BY: any limit of them
outcomes_for_summary(limit) ==
    LET rowsOf == [o \in NodesOf("Outcome") |-> SummaryRowsOf(o)]
    IN  UNION {RowsInOrder(Limit(q, limit), rowsOf) : q \in Perms(NodesOf("Outcome"))}

GetOutcomesForSummary ==
    \E limit \in 0..MaxLimit :
        \E rows \in outcomes_for_summary(limit) :
            Call("get_outcomes_for_summary", limit, rows)

(***************************************************************************)
(* get_openai_client, summarize_outcomes                                   *)
(***************************************************************************)
\* o.get(key, default): the default only when the key is missing
Get(o, key, default) == IF key \in DOMAIN o THEN o[key] ELSE default

\* how an f-string renders a value
Str(v) == IF v = NULL THEN "None" ELSE v

\* sep.join(strings)
RECURSIVE Join(_, _)
Join(strings, sep) ==
    IF Len(strings) = 0 THEN ""
    ELSE IF Len(strings) = 1 THEN strings[1]
    ELSE strings[1] \o sep \o Join(Tail(strings), sep)

\* filter(None, ..) keeps the truthy names
Truthy(name) == name # NULL /\ name # ""

\* ', '.join(filter(None, o.get('decisions', []))) or 'unknown'
DecisionsText(o) ==
    LET joined == Join(SelectSeq(Get(o, "decisions", <<>>), Truthy), ", ")
    IN  IF joined # "" THEN joined ELSE "unknown"

\* the prompt line of one record
PromptLine(o) ==
    "- " \o Str(Get(o, "outcome", "Unknown outcome")) \o ": "
         \o Str(Get(o, "description", "No description")) \o " "
         \o "(from decisions: " \o DecisionsText(o) \o ")"

PromptHeader == "Summarize these outcomes from recent decisions:\n\n"

UserContent(outcomes) ==
    PromptHeader \o Join([i \in 1..Len(outcomes) |-> PromptLine(outcomes[i])], "\n")

\* a summarize_outcomes that lacks the guard for an empty list
NothingToSummarize_unguarded(outcomes) == FALSE

\* if not outcomes
NothingToSummarize(outcomes) == Len(outcomes) = 0

\* get_openai_client(): the module's handle, created when None
get_openai_client == IF llm_client = 0 THEN 1 ELSE llm_client

\* what the text-generation service may answer: generated text, empty
\* content, or a failure (network, auth, quota)
ServiceReplies == {"text", "empty", "error"}

\* summarize_outcomes(outcomes) when the service answers with reply: what
\* it returns or raises and what it leaves in the module and at the service
summarize_outcomes(outcomes, reply) ==
    IF NothingToSummarize(outcomes)
    THEN [result |-> "No outcomes to summarize.", raised |-> NULL,
          client |-> llm_client, calls |-> llm_calls, prompt |-> NULL]
    ELSE [result |-> CASE reply = "text" -> "Generated summary."
                       [] reply = "empty" -> "Unable to generate summary."
                       [] OTHER -> NULL,
          raised |-> IF reply = "error" THEN "APIError" ELSE NULL,
          client |-> get_openai_client,
          calls |-> llm_calls + 1,
          prompt |-> UserContent(outcomes)]

\* summarize_outcomes on what get_outcomes_for_summary just returned
\* (main.py lines 21-23)
Summarize ==
    /\ op = "get_outcomes_for_summary"
    /\ \E reply \in ServiceReplies :
          LET done == summarize_outcomes(result, reply)
          IN  /\ done.calls <= MaxCalls
              /\ op' = "summarize_outcomes"
              /\ arg' = result
              /\ result' = done.result
              /\ raised' = done.raised
              /\ llm_client' = done.client
              /\ llm_calls' = done.calls
              /\ llm_prompt' = done.prompt
    /\ UNCHANGED <<storeVars, connVars, reqVars>>

\* stores of up to two Outcomes, with or without name and description,
\* caused by a Task and two named Decisions that contributed to the Task
SummaryCands(N) ==
    Cands("CAUSED_BY", N \cap (Decisions \cup Tasks), N \cap Outcomes)
        \cup Cands("CONTRIBUTED_TO", N \cap Decisions, N \cap Tasks)

InitSummarize ==
    /\ \E no \in 0..2 :
          nodes = First("Decision", 2) \cup First("Task", 1) \cup First("Outcome", no)
    /\ \E nm \in [nodes \cap Outcomes -> BOOLEAN], ds \in [nodes \cap Outcomes -> BOOLEAN] :
          props = [n \in nodes |->
                     IF n \in Outcomes
                     THEN [NoProps EXCEPT
                             !.name = IF nm[n] THEN IndexName(n) ELSE NULL,
                             !.description = IF ds[n] THEN "it happened" ELSE NULL]
                     ELSE [NoProps EXCEPT !.name = IndexName(n)]]
    /\ rels \in RelSets(SummaryCands(nodes), MaxCauses, 1)
    /\ ProcessStart

NextSummarize == GetClient \/ GetOutcomesForSummary \/ Summarize

SpecSummarize == InitSummarize /\ [][NextSummarize]_vars

\* C6: summarize_outcomes on an empty list returns 'No outcomes to
\* summarize.' and in that call neither creates the client handle nor invokes
\* the service; on a non-empty list it invokes the service exactly once.
C6_EmptyListNeverCallsService ==
    [][op' = "summarize_outcomes" =>
          IF Len(arg') = 0
          THEN /\ result' = "No outcomes to summarize."
               /\ raised' = NULL
               /\ llm_calls' = llm_calls
               /\ llm_client' = llm_client
          ELSE llm_calls' = llm_calls + 1]_vars

\* an empty list was summarized while no client handle existed yet
C6_EmptyListSummarized ==
    /\ op = "summarize_outcomes"
    /\ Len(arg) = 0
    /\ result = "No outcomes to summarize."
    /\ llm_client = 0

\* the line the specification promises for a record: placeholders for a
\* null or missing name or description, 'unknown' for no decisions
PromisedLine(o) ==
    LET outcome == Get(o, "outcome", NULL)
        description == Get(o, "description", NULL)
    IN  "- " \o (IF outcome = NULL THEN "Unknown outcome" ELSE outcome) \o ": "
             \o (IF description = NULL THEN "No description" ELSE description) \o " "
             \o "(from decisions: " \o DecisionsText(o) \o ")"

\* C10: for a non-empty input the call reaches the service, and the prompt
\* holds one line per record in which a null or missing outcome name or
\* description is replaced by its placeholder and an empty decisions list
\* by 'unknown'.
C10_NullsBecomePlaceholders ==
    (op = "summarize_outcomes" /\ Len(arg) > 0) =>
        /\ raised # "TypeError"
        /\ llm_prompt =
              PromptHeader \o Join([i \in 1..Len(arg) |-> PromisedLine(arg[i])], "\n")

(***************************************************************************)
(* main.dashboard: the handler of GET /, one step per statement.  Steps of *)
(* different requests interleave freely, which includes the event loop's   *)
(* order, where a handler without await runs to its end.                   *)
(***************************************************************************)
\* what class Neo4jClient defines
Neo4jClientMethods ==
    {"close", "query", "get_decisions", "get_events", "get_outcomes",
     "get_people", "get_agents", "get_people_with_stats", "get_agents_with_stats",
     "get_tasks", "get_decisions_by_influence", "get_decision_influence_stats",
     "get_dashboard_stats", "get_decisions_by_type", "get_outcomes_for_summary",
     "get_contribution_split", "get_dashboard_summary", "get_topology_stats"}

\* limit: int = 50 of get_people_with_stats and get_agents_with_stats
DefaultStatsLimit == 50

\* limit: int = 20 of get_outcomes_for_summary
DefaultSummaryLimit == 20

Goto(r, line) == pc' = [pc EXCEPT ![r] = line]

\* an exception leaves the handler: the request fails
Raise(r, exc) ==
    /\ Goto(r, "failed")
    /\ error' = [error EXCEPT ![r] = exc]
    /\ UNCHANGED ctx

\* local = client.name(a): the query returns one of values, or the store
\* fails and the exception leaves the handler
QueryStep(r, name, a, values, local, next) ==
    /\ CanUseDriver
    /\ UseDriver
    /\ \/ \E v \in values :
             /\ Returns(name, a, v, NULL)
             /\ ctx' = [ctx EXCEPT ![r][local] = v]
             /\ Goto(r, next)
             /\ UNCHANGED error
       \/ /\ Returns(name, a, NULL, "ServiceUnavailable")
          /\ Raise(r, "ServiceUnavailable")
    /\ UNCHANGED <<storeVars, llmVars>>
    /\ NoInvocation

\* try: outcome_summary = summarize_outcomes(outcomes)
\* except Exception: outcome_summary = None
SummarizeStep(r) ==
    \E reply \in ServiceReplies :
        LET done == summarize_outcomes(ctx[r].outcomes, reply)
        IN  /\ done.calls <= MaxCalls
            /\ Returns("summarize_outcomes", ctx[r].outcomes, done.result, done.raised)
            /\ llm_client' = done.client
            /\ llm_calls' = done.calls
            /\ llm_prompt' = done.prompt
            /\ ctx' = [ctx EXCEPT ![r].outcome_summary =
                                     IF done.raised # NULL THEN NULL ELSE done.result]
            /\ Goto(r, "l28")
            /\ UNCHANGED <<error, storeVars, connVars>>

\* a request arrives
Begin(r) ==
    /\ pc[r] = "idle"
    /\ Goto(r, "l14")
    /\ UNCHANGED <<ctx, error, storeVars, callVars, connVars, llmVars>>
    /\ NoInvocation

\* the next statement of dashboard()
HandlerStep(r) ==
    /\ pc[r] \notin {"idle", "rendered", "failed"}
    /\ CASE pc[r] = "l14" ->
              /\ GetClientEffect
              /\ Returns("get_client", 0, get_client, NULL)
              /\ Goto(r, "l15")
              /\ UNCHANGED <<ctx, error, storeVars, llmVars>>
              /\ NoInvocation
         [] pc[r] = "l15" ->
              QueryStep(r, "get_dashboard_summary", 0, {get_dashboard_summary},
                        "summary", "l16")
         [] pc[r] = "l16" ->
              QueryStep(r, "get_contribution_split", 0, {get_contribution_split},
                        "split", "l17")
         [] pc[r] = "l17" ->
              \* client.get_decisions_with_outcomes: the attribute lookup
              /\ "get_decisions_with_outcomes" \notin Neo4jClientMethods
              /\ Returns("get_decisions_with_outcomes", 20, NULL,
                         "AttributeError")
              /\ Raise(r, "AttributeError")
              /\ UNCHANGED <<storeVars, connVars, llmVars>>
              /\ NoInvocation
         [] pc[r] = "l18" ->
              QueryStep(r, "get_people_with_stats", DefaultStatsLimit,
                        with_stats("Person", DefaultStatsLimit), "people", "l19")
         [] pc[r] = "l19" ->
              QueryStep(r, "get_agents_with_stats", DefaultStatsLimit,
                        with_stats("Agent", DefaultStatsLimit), "agents", "l21")
         [] pc[r] = "l21" ->
              QueryStep(r, "get_outcomes_for_summary", DefaultSummaryLimit,
                        outcomes_for_summary(DefaultSummaryLimit), "outcomes", "l23")
         [] pc[r] = "l23" -> SummarizeStep(r)
         [] pc[r] = "l28" ->
              \* return templates.TemplateResponse("dashboard.html", {..})
              /\ Goto(r, "rendered")
              /\ UNCHANGED <<ctx, error, storeVars, callVars, connVars, llmVars>>
              /\ NoInvocation

\* the response, page or error, leaves; the slot serves the next request
Respond(r) ==
    /\ pc[r] \in {"rendered", "failed"}
    /\ pc' = [pc EXCEPT ![r] = "idle"]
    /\ ctx' = [ctx EXCEPT ![r] = NoLocals]
    /\ error' = [error EXCEPT ![r] = NULL]
    /\ UNCHANGED <<storeVars, callVars, connVars, llmVars>>
    /\ NoInvocation

GetDashboardSummary == Call("get_dashboard_summary", 0, get_dashboard_summary)

\* a small store: one Decision, perhaps a Person that took part in it and
\* an Outcome it caused
Init ==
    /\ \E np \in 0..1, no \in 0..1 :
          nodes = First("Decision", 1) \cup First("Person", np) \cup First("Outcome", no)
    /\ props = [n \in nodes |-> [NoProps EXCEPT !.name = IndexName(n)]]
    /\ rels = {<<t[1], t[2], t[3], 1>> :
                 t \in Cands("PARTICIPATED_IN", nodes \cap Persons, nodes \cap Decisions)
                          \cup Cands("CAUSED_BY", nodes \cap Decisions, nodes \cap Outcomes)}
    /\ ProcessStart

Next ==
    \/ \E r \in Requests : Begin(r)
    \/ \E r \in Requests : HandlerStep(r)
    \/ \E r \in Requests : Respond(r)
    \/ GetClient
    \/ GetDashboardSummary
    \/ Close

Spec == Init /\ [][Next]_vars

\* C7: over every interleaving of handlers, direct calls and close(), at
\* most one Neo4jClient and at most one open driver exist; constructing the
\* client creates no driver; a query creates a driver only when the client
\* has none, and that driver is a new one, never one closed before; while
\* the client has a driver every query keeps it; close() releases the
\* driver and leaves the client with none.
C7_OneClientOneLazyDriver ==
    [][/\ clients_made' <= 1
       /\ open_drivers' \subseteq {driver'} \ {0}
       /\ clients_made' # clients_made =>
             driver' = 0 /\ drivers_made' = drivers_made /\ open_drivers' = {}
       /\ drivers_made' # drivers_made =>
             /\ driver = 0
             /\ driver' = drivers_made'
             /\ drivers_made' = drivers_made + 1
             /\ op' \notin {"get_client", "close"}
       /\ (driver # 0 /\ op' # "close") => driver' = driver
       /\ (driver = 0 /\ op' \in Neo4jClientMethods \ {"close"}) => driver' > drivers_made
       /\ op' = "close" => driver' = 0 /\ open_drivers' = {}]_vars

\* a request's query ran on a second driver, created after close() released
\* the first
C7_FreshDriverAfterClose ==
    /\ clients_made = 1
    /\ driver = 2
    /\ open_drivers = {2}
    /\ \E r \in Requests : pc[r] = "l16"

\* C8: a request fails only when a store query failed; when summarize_outcomes
\* raised, the page is still rendered, with outcome_summary None
C8_RequestRendersUnlessQueryFails ==
    \A r \in Requests :
        /\ pc[r] = "failed" => error[r] = "ServiceUnavailable"
        /\ (pc[r] \in {"l28", "rendered"} /\ raised = "APIError") =>
              ctx[r].outcome_summary = NULL

====
